---------------------------- MODULE Spec2Model ----------------------------
(* A model of pyrandr/randr.py: the Screen change-tracking state machine, *)
(* its property setters, build_cmd and apply_settings, with exec_cmd as   *)
(* a collaborator that either returns or raises.                          *)
EXTENDS Integers, Sequences, FiniteSets, TLC

(* ------------------------------ bounds -------------------------------- *)

\* largest number of Mode objects a Screen is constructed with
MaxModes == 2

\* largest number of lines parse_xrandr is given
MaxLines == 3

(* --------------------------- Python values ---------------------------- *)

\* None, an int and a str as one record shape, so that != compares them
PyNone == [k |-> "none", i |-> 0, s |-> ""]

PyInt(n) == [k |-> "int", i |-> n, s |-> ""]

PyStr(x) == [k |-> "str", i |-> 0, s |-> x]

\* the position attribute before any assignment
NoPos == [k |-> "none", rel |-> 0, to |-> ""]

\* a (relation, relative_to) tuple
Pos(rel, to) == [k |-> "pair", rel |-> rel, to |-> to]

(* ------------------------------- Mode --------------------------------- *)

Mode(width, height, freq, current, preferred) ==
    [width |-> width, height |-> height, freq |-> freq,
     current |-> current, preferred |-> preferred]

\* Mode.resolution(string=False)
resolution(m) == <<m.width, m.height>>

\* '{0}x{1}'.format(w, h)
format(res) == ToString(res[1]) \o "x" \o ToString(res[2])

(* ------------------------- RotateDirection ---------------------------- *)

Rotation(direction, name) == [direction |-> direction, name |-> name]

rotations == <<Rotation(0, "normal"), Rotation(90, "left"),
               Rotation(180, "inverted"), Rotation(270, "right")>>

\* by_name = {k.name: k.direction for k in rotations}
RotateDirection_by_name ==
    [n \in {rotations[j].name : j \in 1..Len(rotations)} |->
        (CHOOSE j \in 1..Len(rotations) : rotations[j].name = n) \* unique names
    ]

\* by_direction = {v: k for k, v in by_name.items()}
RotateDirection_by_direction ==
    [d \in {rotations[RotateDirection_by_name[n]].direction :
                n \in DOMAIN RotateDirection_by_name} |->
        CHOOSE n \in DOMAIN RotateDirection_by_name :
            rotations[RotateDirection_by_name[n]].direction = d]

\* does the dict lookup by_direction[v] find a key
HasDirection(v) == v.k = "int" /\ v.i \in DOMAIN RotateDirection_by_direction

(* --------------------------- PostitonType ----------------------------- *)

Position(name, value) == [name |-> name, value |-> value]

positions == <<Position("--left-of", 1), Position("--right-of", 2),
               Position("--above", 3), Position("--below", 4),
               Position("--same-as", 5)>>

\* by_position = {v: k for k, v in by_name.items()}
PostitonType_by_position ==
    [v \in {positions[j].value : j \in 1..Len(positions)} |->
        (CHOOSE p \in {positions[j] : j \in 1..Len(positions)} : p.value = v).name]

(* -------------------------- ScreenSettings ---------------------------- *)

Keys == {"resolution", "is_primary", "is_enabled", "rotation", "position",
         "dirty", "is_connected"}

ScreenSettings ==
    [resolution |-> <<0, 0>>,
     is_primary |-> FALSE,
     is_enabled |-> TRUE,
     rotation |-> PyNone,
     position |-> NoPos,
     dirty |-> PyNone,
     is_connected |-> TRUE,
     change_table |-> [key \in Keys |-> FALSE]]

(* ------------------------------ Screen -------------------------------- *)

\* Screen.__init__(name, primary, rot, modes)
Screen(name, primary, rot, modes) ==
    LET current == SelectSeq(modes, LAMBDA item : item.current)
        curr_mode == IF current # <<>> THEN <<current[1]>> ELSE <<>>
        set0 == [ScreenSettings EXCEPT !.rotation = rot,
                                       !.is_primary = primary,
                                       !.is_enabled = (curr_mode # <<>>),
                                       !.is_connected = (modes # <<>>)]
        set1 == IF curr_mode # <<>>
                THEN [set0 EXCEPT !.resolution = resolution(curr_mode[1])]
                ELSE set0
    IN [name |-> name, set |-> set1, supported_modes |-> modes,
        curr_mode |-> curr_mode]

\* a setter's outcome: the screen after the call and the exception raised
Outcome(s, err) == [scr |-> s, err |-> err]

\* a variant that also forgets a staged resolution change
is_enabled_setter_clearing(s, enable) ==
    IF enable # s.set.is_enabled
    THEN Outcome([s EXCEPT !.set.is_enabled = ~ @,
                           !.set.change_table["is_enabled"] = ~ @,
                           !.set.change_table["resolution"] = FALSE], "none")
    ELSE Outcome(s, "none")

\* is_enabled setter
is_enabled_setter(s, enable) ==
    IF enable # s.set.is_enabled
    THEN Outcome([s EXCEPT !.set.is_enabled = ~ @,
                           !.set.change_table["is_enabled"] = ~ @], "none")
    ELSE Outcome(s, "none")

\* is_primary setter
is_primary_setter(s, is_primary) ==
    IF is_primary # s.set.is_primary
    THEN Outcome([s EXCEPT !.set.is_primary = ~ @,
                           !.set.change_table["is_primary"] = ~ @], "none")
    ELSE Outcome(s, "none")

\* Screen.available_resolutions(string=False)
available_resolutions(s) ==
    {resolution(s.supported_modes[j]) : j \in 1..Len(s.supported_modes)}

\* a variant that accepts every resolution
check_resolution_any(s, newres) == TRUE

\* Screen.check_resolution: TRUE when it returns, FALSE when it raises
check_resolution(s, newres) == newres \in available_resolutions(s)

\* a variant without the "The Screen is off" test
resolution_setter_unchecked(s, newres, custom) ==
    IF newres # s.set.resolution
    THEN IF ~ custom /\ ~ check_resolution(s, newres)
         THEN Outcome(s, "ValueError")
         ELSE Outcome([s EXCEPT !.set.resolution = newres,
                                !.set.change_table["resolution"] = TRUE],
                      "none")
    ELSE Outcome(s, "none")

\* a variant whose first test ignores the change table
resolution_setter_strict(s, newres, custom) ==
    IF ~ s.set.is_enabled
    THEN Outcome(s, "ValueError")
    ELSE IF newres # s.set.resolution
         THEN IF ~ custom /\ ~ check_resolution(s, newres)
              THEN Outcome(s, "ValueError")
              ELSE Outcome([s EXCEPT !.set.resolution = newres,
                                     !.set.change_table["resolution"] = TRUE],
                           "none")
         ELSE Outcome(s, "none")

\* resolution setter
resolution_setter(s, newres, custom) ==
    IF ~ s.set.is_enabled /\ ~ s.set.change_table["is_enabled"]
    THEN Outcome(s, "ValueError")
    ELSE IF newres # s.set.resolution
         THEN IF ~ custom /\ ~ check_resolution(s, newres)
              THEN Outcome(s, "ValueError")
              ELSE Outcome([s EXCEPT !.set.resolution = newres,
                                     !.set.change_table["resolution"] = TRUE],
                           "none")
         ELSE Outcome(s, "none")

\* a variant without the comparison with the staged value
rotation_setter_unguarded(s, direction) ==
    Outcome([s EXCEPT !.set.rotation = direction,
                      !.set.change_table["rotation"] = TRUE], "none")

\* rotation setter
rotation_setter(s, direction) ==
    IF direction # s.set.rotation
    THEN Outcome([s EXCEPT !.set.rotation = direction,
                           !.set.change_table["rotation"] = TRUE], "none")
    ELSE Outcome(s, "none")

\* position setter
position_setter(s, args) ==
    IF args # s.set.position
    THEN Outcome([s EXCEPT !.set.position = args,
                           !.set.change_table["position"] = TRUE], "none")
    ELSE Outcome(s, "none")

\* a variant that reports a change even when the table holds none
AnyChanged_always(s) == TRUE

\* True in self.__set.change_table.values()
AnyChanged(s) == \E key \in Keys : s.set.change_table[key]

\* what build_cmd gives: a list (kind "cmd"), False (kind "false") or an
\* exception (kind "raise", err the exception)
Built(kind, cmd, err) == [kind |-> kind, cmd |-> cmd, err |-> err]

\* a variant with the enabled test inverted
turn_off_inverted(s) == s.set.change_table["is_enabled"] /\ s.set.is_enabled

\* line 214: the display is being disabled
turn_off(s) == s.set.change_table["is_enabled"] /\ ~ s.set.is_enabled

\* a variant that never emits --mode
ModePart_auto(s, cmd) == cmd \o <<"--auto">>

\* lines 220-224: --mode or --auto
ModePart(s, cmd) ==
    IF s.set.is_enabled /\ s.set.change_table["resolution"]
    THEN cmd \o <<"--mode", format(s.set.resolution)>>
    ELSE cmd \o <<"--auto">>

\* lines 226-227: --primary
PrimaryPart(s, cmd) ==
    IF s.set.change_table["is_primary"] /\ s.set.is_primary
    THEN cmd \o <<"--primary">>
    ELSE cmd

\* a variant that falls back to "normal" for a value without a name
RotatePart_default(s, cmd) ==
    IF s.set.change_table["rotation"]
    THEN IF ~ HasDirection(s.set.rotation)
         THEN Built("cmd", cmd \o <<"--rotate", "normal">>, "none")
         ELSE Built("cmd", cmd \o <<"--rotate",
                        RotateDirection_by_direction[s.set.rotation.i]>>, "none")
    ELSE Built("cmd", cmd, "none")

\* lines 229-234: --rotate
RotatePart(s, cmd) ==
    IF s.set.change_table["rotation"]
    THEN IF ~ HasDirection(s.set.rotation)
         THEN Built("raise", <<>>, "KeyError")
         ELSE LET rot == RotateDirection_by_direction[s.set.rotation.i]
              IN IF rot = ""
                 THEN Built("raise", <<>>, "ValueError")
                 ELSE Built("cmd", cmd \o <<"--rotate", rot>>, "none")
    ELSE Built("cmd", cmd, "none")

\* lines 236-239: the relation token and the other output's name
PositionPart(s, cmd) ==
    IF s.set.change_table["position"]
    THEN IF s.set.position.k # "pair"
         THEN Built("raise", <<>>, "TypeError")
         ELSE IF s.set.position.rel \notin DOMAIN PostitonType_by_position
              THEN Built("raise", <<>>, "KeyError")
              ELSE Built("cmd",
                         cmd \o <<PostitonType_by_position[s.set.position.rel],
                                  s.set.position.to>>,
                         "none")
    ELSE Built("cmd", cmd, "none")

\* a variant without the test of the screen name
build_cmd_unnamed(s) ==
    IF AnyChanged(s)
    THEN LET cmd == <<"xrandr", "--output", s.name>>
         IN IF turn_off(s)
            THEN Built("cmd", cmd \o <<"--off">>, "none")
            ELSE LET r == RotatePart(s, PrimaryPart(s, ModePart(s, cmd)))
                 IN IF r.kind = "raise" THEN r
                    ELSE PositionPart(s, r.cmd)
    ELSE Built("false", <<>>, "none")

\* Screen.build_cmd
build_cmd(s) ==
    IF AnyChanged(s)
    THEN IF s.name = ""
         THEN Built("raise", <<>>, "ValueError")
         ELSE LET cmd == <<"xrandr", "--output", s.name>>
              IN IF turn_off(s)
                 THEN Built("cmd", cmd \o <<"--off">>, "none")
                 ELSE LET r == RotatePart(s, PrimaryPart(s, ModePart(s, cmd)))
                      IN IF r.kind = "raise" THEN r
                         ELSE PositionPart(s, r.cmd)
    ELSE Built("false", <<>>, "none")

\* a variant that leaves the rotation entry of the table set
ResetChangeTable_partial(s) ==
    [s EXCEPT !.set.change_table =
        [key \in Keys |-> key = "rotation" /\ s.set.change_table[key]]]

\* lines 261-262: the change table after the "reset change table" loop
ResetChangeTable(s) == [s EXCEPT !.set.change_table = [key \in Keys |-> FALSE]]

\* what apply_settings gives: the screen after the call, the exception it
\* lets through, and the argument lists exec_cmd was called with
Applied(s, err, execd) == [scr |-> s, err |-> err, execd |-> execd]

\* exec_cmd: sb.check_output returns (ok) or raises CalledProcessError
exec_cmd(cmd, ok) == IF ok THEN "none" ELSE "CalledProcessError"

\* a variant that resets the table even when exec_cmd raised
RunAndReset_always(s, cmd, ok) ==
    Applied(ResetChangeTable(s), exec_cmd(cmd, ok), <<cmd>>)

\* exec_cmd(cmd) followed by the reset, which an exception skips
RunAndReset(s, cmd, ok) ==
    LET e == exec_cmd(cmd, ok)
    IN IF e # "none" THEN Applied(s, e, <<cmd>>)
       ELSE Applied(ResetChangeTable(s), "none", <<cmd>>)

\* a variant that ignores its default argument
apply_settings_nodefault(s, default, ok) ==
    IF AnyChanged(s)
    THEN LET b == build_cmd(s)
         IN IF b.kind = "raise" THEN Applied(s, b.err, <<>>)
            ELSE RunAndReset(s, b.cmd, ok)
    ELSE Applied(ResetChangeTable(s), "none", <<>>)

\* Screen.apply_settings(default)
apply_settings(s, default, ok) ==
    IF default
    THEN RunAndReset(s, <<"xrandr", "--output", s.name, "--auto">>, ok)
    ELSE IF AnyChanged(s)
         THEN LET b == build_cmd(s)
              IN IF b.kind = "raise" THEN Applied(s, b.err, <<>>)
                 ELSE RunAndReset(s, b.cmd, ok)
         ELSE Applied(ResetChangeTable(s), "none", <<>>)

(* ------------------------------ parser -------------------------------- *)

\* a line of the inventory: conn is re.search(rxconn) or re.search(rxdisconn),
\* rx is re.search(rx); tokens is line.split(' '); the other fields are the
\* groups of rx
Line(conn, rx, tokens, width, height, current, preferred) ==
    [conn |-> conn, rx |-> rx, tokens |-> tokens, width |-> width,
     height |-> height, freq |-> 60, current |-> current,
     preferred |-> preferred]

\* what create_screen gives: a Screen (in a list of one) or the exception
Created(screen, err) == [screen |-> screen, err |-> err]

\* create_screen(name_str, modes)
create_screen(name_str, modes) ==
    LET fr == name_str.tokens
        sc_name == fr[1]
        primary == "primary" \in {fr[j] : j \in 1..Len(fr)}
    IN IF modes # <<>> /\ Len(fr) > 2
       THEN IF Len(fr) < 4
            THEN Created(<<>>, "IndexError")
            ELSE LET name == fr[4]
                     rot == IF name \in DOMAIN RotateDirection_by_name
                            THEN PyStr(name)
                            ELSE PyInt(rotations[1].direction)
                 IN Created(<<Screen(sc_name, primary, rot, modes)>>, "none")
       ELSE Created(<<Screen(sc_name, primary, PyNone, modes)>>, "none")

\* the locals of parse_xrandr: the lines, the index of the next one, the
\* pending header (a list of at most one), the modes collected, the screens
\* built, the exception raised, and whether the function has returned
ParseState(lines, i, sc_name_line, modes, screens, err, done) ==
    [lines |-> lines, i |-> i, sc_name_line |-> sc_name_line,
     modes |-> modes, screens |-> screens, err |-> err, done |-> done]

\* parse_xrandr before the loop
ParseStart(lines) == ParseState(lines, 1, <<>>, <<>>, <<>>, "none", FALSE)

\* one turn of the loop "for i in lines"
ParseStep(p) ==
    LET l == p.lines[p.i]
    IN IF l.conn
       THEN IF p.sc_name_line # <<>>
            THEN LET c == create_screen(p.sc_name_line[1], p.modes)
                 IN IF c.err # "none"
                    THEN [p EXCEPT !.err = c.err, !.done = TRUE]
                    ELSE [p EXCEPT !.screens = @ \o c.screen,
                                   !.modes = <<>>,
                                   !.sc_name_line = <<l>>,
                                   !.i = @ + 1]
            ELSE [p EXCEPT !.sc_name_line = <<l>>, !.i = @ + 1]
       ELSE IF l.rx
            THEN [p EXCEPT !.modes = Append(@, Mode(l.width, l.height, l.freq,
                                                   l.current, l.preferred)),
                           !.i = @ + 1]
            ELSE [p EXCEPT !.i = @ + 1]

\* after the loop: the pending header becomes the last Screen
ParseFinish(p) ==
    IF p.sc_name_line # <<>>
    THEN LET c == create_screen(p.sc_name_line[1], p.modes)
         IN IF c.err # "none"
            THEN [p EXCEPT !.err = c.err, !.done = TRUE]
            ELSE [p EXCEPT !.screens = @ \o c.screen, !.done = TRUE]
    ELSE [p EXCEPT !.done = TRUE]

(* ------------------------------ inputs -------------------------------- *)

\* the resolution of the j-th mode of the inventory: 640x360, 1280x720, ...
ModeRes(j) == <<640 * j, 360 * j>>

\* the mode lists a Screen is built from: n modes, the c-th current (0: none)
ModeList(n, c) ==
    [j \in 1..n |-> Mode(ModeRes(j)[1], ModeRes(j)[2], 60, j = c, j = 1)]

\* no mode (a disconnected output) or MaxModes modes, none of them current
\* (an output that is off) or the first one current
ModeLists == {ModeList(n, c) : n \in {0, MaxModes}, c \in 0..1}

Names == {"HDMI2", ""}

\* the (name, modes) a Screen is built from; a header line without a name
\* comes without modes
Screens == {sm \in Names \X ModeLists : sm[1] = "" => sm[2] = <<>>}

\* what create_screen passes as rot: None without modes, else the name of
\* the rotation the header line reports
InitRots(modes) == IF modes = <<>> THEN {PyNone} ELSE {PyStr("left")}

\* resolutions handed to the resolution setter: (0,0), every inventory
\* resolution and one more that no mode list has
Resolutions == {<<0, 0>>} \cup {ModeRes(j) : j \in 1..(MaxModes + 1)}

\* a direction by_direction has as a key, and a rotation name, which it has not
RotationArgs == {PyInt(90), PyStr("left")}

PositionArgs == {Pos(2, "HDMI1"), Pos(2, "")}

\* the lines an inventory is made of: two header lines, two mode lines
\* (one of them the current mode) and the "Screen 0: ..." line
LineKinds ==
    {Line(TRUE, FALSE, <<"HDMI1", "connected", "primary", "1920x1080+0+0">>,
          0, 0, FALSE, FALSE),
     Line(TRUE, FALSE, <<"VGA1", "disconnected">>, 0, 0, FALSE, FALSE),
     Line(FALSE, TRUE, <<>>, 1280, 720, TRUE, TRUE),
     Line(FALSE, TRUE, <<>>, 640, 360, FALSE, FALSE),
     Line(FALSE, FALSE, <<"Screen", "0:">>, 0, 0, FALSE, FALSE)}

\* the inventories: every sequence of at most MaxLines lines
Inventories ==
    UNION {[1..n -> LineKinds] : n \in 0..MaxLines}

(* ------------------------------ state --------------------------------- *)

VARIABLES
    scr,    \* the Screen object
    base,   \* the staged values at construction or at the last apply that
            \* returned
    last,   \* the last call: which, its exception, its return value and the
            \* exec_cmd calls it made
    parse   \* the locals of the running parse_xrandr call

vars == <<scr, base, last, parse>>

Staged(s) == [resolution |-> s.set.resolution,
              is_primary |-> s.set.is_primary,
              is_enabled |-> s.set.is_enabled,
              rotation |-> s.set.rotation,
              position |-> s.set.position]

Call(op, err, ret, execd) == [op |-> op, err |-> err, ret |-> ret, execd |-> execd]

NoRet == Built("none", <<>>, "none")

Init ==
    /\ \E sm \in Screens, primary \in BOOLEAN :
         \E rot \in InitRots(sm[2]) :
            scr = Screen(sm[1], primary, rot, sm[2])
    /\ base = Staged(scr)
    /\ last = Call("init", "none", NoRet, <<>>)
    /\ parse = ParseFinish(ParseStart(<<>>))

Setter(op, out) ==
    /\ scr' = out.scr
    /\ base' = base
    /\ last' = Call(op, out.err, NoRet, <<>>)
    /\ UNCHANGED parse

SetEnabled == \E enable \in BOOLEAN :
    Setter("is_enabled", is_enabled_setter(scr, enable))

SetPrimary == \E is_primary \in BOOLEAN :
    Setter("is_primary", is_primary_setter(scr, is_primary))

SetResolution == \E newres \in Resolutions :
    Setter("resolution", resolution_setter(scr, newres, FALSE))

SetRotation == \E direction \in RotationArgs :
    Setter("rotation", rotation_setter(scr, direction))

SetPosition == \E args \in PositionArgs :
    Setter("position", position_setter(scr, args))

BuildCmd ==
    /\ last' = Call("build_cmd", build_cmd(scr).err, build_cmd(scr), <<>>)
    /\ UNCHANGED <<scr, base, parse>>

Applying(op, a) ==
    /\ scr' = a.scr
    /\ base' = IF a.err = "none" THEN Staged(a.scr) ELSE base
    /\ last' = Call(op, a.err, NoRet, a.execd)
    /\ UNCHANGED parse

ApplySettings == \E ok \in BOOLEAN :
    Applying("apply_settings", apply_settings(scr, FALSE, ok))

ApplyDefault == \E ok \in BOOLEAN :
    Applying("apply_default", apply_settings(scr, TRUE, ok))

Next ==
    \/ SetEnabled
    \/ SetPrimary
    \/ SetResolution
    \/ SetRotation
    \/ SetPosition
    \/ BuildCmd
    \/ ApplySettings
    \/ ApplyDefault

Spec == Init /\ [][Next]_vars

\* parse_xrandr on an inventory; no Screen method is called meanwhile
InitParse ==
    /\ scr = Screen("", FALSE, PyNone, <<>>)
    /\ base = Staged(scr)
    /\ last = Call("init", "none", NoRet, <<>>)
    /\ \E lines \in Inventories : parse = ParseStart(lines)

ParseLine ==
    /\ ~ parse.done
    /\ parse.i <= Len(parse.lines)
    /\ parse' = ParseStep(parse)
    /\ UNCHANGED <<scr, base, last>>

ParseEnd ==
    /\ ~ parse.done
    /\ parse.i > Len(parse.lines)
    /\ parse' = ParseFinish(parse)
    /\ UNCHANGED <<scr, base, last>>

NextParse == ParseLine \/ ParseEnd

SpecParse == InitParse /\ [][NextParse]_vars

(* ------------------------- shared vocabulary -------------------------- *)

\* the five staged fields
Fields == {"resolution", "is_primary", "is_enabled", "rotation", "position"}

AnyDirty(s) == \E f \in Fields : s.set.change_table[f]

Tokens(cmd) == {cmd[j] : j \in 1..Len(cmd)}

\* cmd holds the two tokens a, b next to each other
HasPair(cmd, a, b) == \E j \in 1..(Len(cmd) - 1) : cmd[j] = a /\ cmd[j + 1] = b

\* every dirty rotation / position value has a name / a relation token
Resolvable(s) ==
    /\ s.set.change_table["rotation"] => HasDirection(s.set.rotation)
    /\ s.set.change_table["position"] =>
          /\ s.set.position.k = "pair"
          /\ s.set.position.rel \in DOMAIN PostitonType_by_position

OffCommand(s) == <<"xrandr", "--output", s.name, "--off">>

(* -------------------------------- C1 ---------------------------------- *)

\* the command the fixed precedence of the specification defines
SpecCommand(s) ==
    <<"xrandr", "--output", s.name>> \o
    (IF s.set.change_table["is_enabled"] /\ ~ s.set.is_enabled
     THEN <<"--off">>
     ELSE (IF s.set.change_table["resolution"]
           THEN <<"--mode", format(s.set.resolution)>>
           ELSE <<"--auto">>)
          \o (IF s.set.change_table["is_primary"] /\ s.set.is_primary
              THEN <<"--primary">> ELSE <<>>)
          \o (IF s.set.change_table["rotation"]
              THEN <<"--rotate", RotateDirection_by_direction[s.set.rotation.i]>>
              ELSE <<>>)
          \o (IF s.set.change_table["position"]
              THEN <<PostitonType_by_position[s.set.position.rel],
                     s.set.position.to>>
              ELSE <<>>))

\* C1: in every reachable state with a dirty field and a non-empty name
\* (and with rotation and relation values that have a name, so that the
\* sequence is defined), build_cmd returns exactly the sequence of the fixed
\* precedence: --off alone, else --mode when resolution is dirty else --auto,
\* then --primary, --rotate and the relation, each iff its field is dirty.
C1_FixedPrecedence ==
    (AnyDirty(scr) /\ scr.name # "" /\ Resolvable(scr)) =>
        build_cmd(scr) = Built("cmd", SpecCommand(scr), "none")

(* -------------------------------- C2 ---------------------------------- *)

\* C2: on a screen that was enabled at the last baseline and has a
\* non-empty name, once is_enabled = False is staged build_cmd returns
\* exactly [xrandr, --output, name, --off], whatever else is dirty, and no
\* command holds --off together with another flag.
C2_OffAlone ==
    /\ (base.is_enabled /\ ~ scr.set.is_enabled /\ scr.name # "") =>
          build_cmd(scr) = Built("cmd", OffCommand(scr), "none")
    /\ (build_cmd(scr).kind = "cmd" /\ "--off" \in Tokens(build_cmd(scr).cmd)) =>
          build_cmd(scr).cmd = OffCommand(scr)

\* build_cmd has returned the --off command with resolution, is_primary,
\* rotation and position all dirty
C2_Witness ==
    /\ last.op = "build_cmd"
    /\ last.ret = Built("cmd", OffCommand(scr), "none")
    /\ base.is_enabled
    /\ \A f \in Fields : scr.set.change_table[f]

(* -------------------------------- C3 ---------------------------------- *)

\* C3: whenever no field is dirty, build_cmd returns False (also for an
\* empty name) and apply_settings calls exec_cmd zero times, raises nothing
\* and changes nothing.
C3_CleanIsNoOp ==
    ~ AnyDirty(scr) =>
        /\ build_cmd(scr) = Built("false", <<>>, "none")
        /\ \A ok \in BOOLEAN :
              apply_settings(scr, FALSE, ok) = Applied(scr, "none", <<>>)

\* apply_settings has run on a clean screen with an empty name: no
\* exec_cmd call, no exception
C3_Witness ==
    /\ last.op = "apply_settings"
    /\ last.execd = <<>>
    /\ last.err = "none"
    /\ scr.name = ""
    /\ ~ AnyDirty(scr)

(* -------------------------------- C4 ---------------------------------- *)

\* C4: after an apply_settings whose exec_cmd call returned, every dirty
\* flag is False, build_cmd returns False and a second apply_settings makes
\* no exec_cmd call.
C4_ApplyRoundTrip ==
    (last.op = "apply_settings" /\ last.err = "none") =>
        /\ \A key \in Keys : ~ scr.set.change_table[key]
        /\ build_cmd(scr).kind = "false"
        /\ \A ok \in BOOLEAN : apply_settings(scr, FALSE, ok).execd = <<>>

\* apply_settings has passed a command with --rotate to exec_cmd, which
\* returned
C4_Witness ==
    /\ last.op = "apply_settings"
    /\ last.err = "none"
    /\ Len(last.execd) = 1
    /\ "--rotate" \in Tokens(last.execd[1])

(* -------------------------------- C5 ---------------------------------- *)

\* C5: when exec_cmd raises inside apply_settings, or build_cmd raises, the
\* exception reaches the caller and the Screen is exactly as before, so
\* build_cmd gives the same result and a retried apply_settings passes the
\* same command to exec_cmd.
C5_FailureKeepsState ==
    AnyDirty(scr) =>
        LET b == build_cmd(scr)
            a == apply_settings(scr, FALSE, FALSE)
        IN /\ a.err # "none"
           /\ a.scr = scr
           /\ build_cmd(a.scr) = b
           /\ b.kind = "raise" => a.err = b.err /\ a.execd = <<>>
           /\ b.kind = "cmd" =>
                 /\ a.err = "CalledProcessError"
                 /\ a.execd = <<b.cmd>>
                 /\ \A ok \in BOOLEAN :
                       apply_settings(a.scr, FALSE, ok).execd = <<b.cmd>>

\* apply_settings has let a CalledProcessError through and the fields are
\* still dirty
C5_Witness ==
    /\ last.op = "apply_settings"
    /\ last.err = "CalledProcessError"
    /\ Len(last.execd) = 1
    /\ scr.set.change_table["resolution"]
    /\ scr.set.change_table["position"]

(* -------------------------------- C6 ---------------------------------- *)

\* C6: in every reachable state and for each staged field, the field's
\* dirty flag is True exactly when the staged value differs from the value
\* at the last apply that returned (or at construction).
C6_DirtyIsDiff ==
    \A f \in Fields : scr.set.change_table[f] <=> (Staged(scr)[f] # base[f])

(* -------------------------------- C7 ---------------------------------- *)

\* the staged values are the same and no flag went from False to True
NoNewDirt(s, t) ==
    /\ Staged(t) = Staged(s)
    /\ \A key \in Keys : t.set.change_table[key] => s.set.change_table[key]

\* C7: for every setter, assigning the value the staged field already holds
\* changes no staged value and turns no dirty flag on, and two calls in a
\* row with one argument leave the Screen as one call does.
C7_SameValueIsNoOp ==
    /\ NoNewDirt(scr, is_enabled_setter(scr, scr.set.is_enabled).scr)
    /\ NoNewDirt(scr, is_primary_setter(scr, scr.set.is_primary).scr)
    /\ NoNewDirt(scr, resolution_setter(scr, scr.set.resolution, FALSE).scr)
    /\ NoNewDirt(scr, rotation_setter(scr, scr.set.rotation).scr)
    /\ NoNewDirt(scr, position_setter(scr, scr.set.position).scr)
    /\ \A v \in BOOLEAN :
          /\ is_enabled_setter(is_enabled_setter(scr, v).scr, v).scr
                = is_enabled_setter(scr, v).scr
          /\ is_primary_setter(is_primary_setter(scr, v).scr, v).scr
                = is_primary_setter(scr, v).scr
    /\ \A v \in Resolutions :
          resolution_setter(resolution_setter(scr, v, FALSE).scr, v, FALSE)
             = resolution_setter(scr, v, FALSE)
    /\ \A v \in RotationArgs :
          rotation_setter(rotation_setter(scr, v).scr, v).scr
             = rotation_setter(scr, v).scr
    /\ \A v \in PositionArgs :
          position_setter(position_setter(scr, v).scr, v).scr
             = position_setter(scr, v).scr

\* the rotation setter has run with the value already staged: it ran, the
\* staged rotation is one of its arguments and the flag is still False
C7_Witness ==
    /\ last.op = "rotation"
    /\ scr.set.rotation \in RotationArgs
    /\ ~ scr.set.change_table["rotation"]
    /\ base.rotation = scr.set.rotation

(* -------------------------------- C8 ---------------------------------- *)

\* C8: in every state, for every resolution r that no supported mode has,
\* the resolution setter (custom False) raises and leaves the staged
\* resolution and all dirty flags as they were, also for r = (0, 0) on a
\* screen without a current mode.
C8_UnsupportedRaises ==
    \A r \in Resolutions \ available_resolutions(scr) :
        resolution_setter(scr, r, FALSE) = Outcome(scr, "ValueError")

(* -------------------------------- C9 ---------------------------------- *)

\* C9 as stated: for every Screen and every r of supported_modes the
\* resolution setter returns and the build_cmd that follows returns a
\* command with --mode <r>.
C9_SupportedGivesMode ==
    \A r \in available_resolutions(scr) :
        LET o == resolution_setter(scr, r, FALSE)
        IN /\ o.err = "none"
           /\ build_cmd(o.scr).kind = "cmd"
           /\ HasPair(build_cmd(o.scr).cmd, "--mode", format(r))

\* C9 amended: on a Screen that is enabled or whose is_enabled flag is
\* dirty, the resolution setter returns for every r of supported_modes and
\* stages r; when r differs from the resolution staged before (or the
\* resolution was dirty already) and the staged is_enabled is True, the
\* build_cmd that follows returns a command with --mode <r>, provided the
\* name is non-empty and every dirty rotation and relation has a name.
C9_SupportedGivesModeWhenChanged ==
    \A r \in available_resolutions(scr) :
        (scr.set.is_enabled \/ scr.set.change_table["is_enabled"]) =>
            LET o == resolution_setter(scr, r, FALSE)
            IN /\ o.err = "none"
               /\ o.scr.set.resolution = r
               /\ ( /\ (r # scr.set.resolution
                          \/ scr.set.change_table["resolution"])
                    /\ o.scr.set.is_enabled
                    /\ o.scr.name # ""
                    /\ Resolvable(o.scr) ) =>
                     /\ build_cmd(o.scr).kind = "cmd"
                     /\ HasPair(build_cmd(o.scr).cmd, "--mode", format(r))

\* the resolution setter has staged a supported resolution other than the
\* baseline one and build_cmd gives --mode for it
C9_Witness ==
    /\ last.op = "resolution"
    /\ last.err = "none"
    /\ scr.set.resolution # base.resolution
    /\ scr.set.resolution \in available_resolutions(scr)
    /\ build_cmd(scr).kind = "cmd"
    /\ HasPair(build_cmd(scr).cmd, "--mode", format(scr.set.resolution))

(* -------------------------------- C10 --------------------------------- *)

\* C10: the resolution setter raises and changes nothing whenever the
\* staged is_enabled is False and its flag is False, whatever resolution is
\* passed; in every other state it raises only for an unsupported,
\* unchecked-not-requested resolution, so not because of the enabled state.
C10_DisabledRaises ==
    \A r \in Resolutions, custom \in BOOLEAN :
        LET o == resolution_setter(scr, r, custom)
        IN IF ~ scr.set.is_enabled /\ ~ scr.set.change_table["is_enabled"]
           THEN o = Outcome(scr, "ValueError")
           ELSE o.err # "none" =>
                   ~ custom /\ r \notin available_resolutions(scr)

\* the resolution setter has raised on a screen that is off and not being
\* switched on, after an apply that switched it off
C10_Witness ==
    /\ last.op = "resolution"
    /\ last.err = "ValueError"
    /\ ~ scr.set.is_enabled
    /\ ~ scr.set.change_table["is_enabled"]
    /\ scr.curr_mode # <<>>

(* -------------------------------- C11 --------------------------------- *)

AutoCommand(s) == <<"xrandr", "--output", s.name, "--auto">>

\* C11: in every reachable state apply_settings(default=True) calls exec_cmd
\* exactly once, with exactly [xrandr, --output, name, --auto], dirty or not;
\* when exec_cmd returns every flag becomes False, when it raises the flags
\* stay, and in both cases the staged values (and the rest of the Screen)
\* are as before.
C11_DefaultApply ==
    \A ok \in BOOLEAN :
        LET a == apply_settings(scr, TRUE, ok)
        IN /\ a.execd = <<AutoCommand(scr)>>
           /\ Staged(a.scr) = Staged(scr)
           /\ a.scr = [scr EXCEPT !.set.change_table = a.scr.set.change_table]
           /\ ok => /\ a.err = "none"
                    /\ \A key \in Keys : ~ a.scr.set.change_table[key]
           /\ ~ ok => /\ a.err = "CalledProcessError"
                      /\ a.scr.set.change_table = scr.set.change_table

\* apply_settings(default=True) has run on a Screen with staged changes:
\* one exec_cmd call with the --auto command, the staged values kept and,
\* exec_cmd having returned, no flag left
C11_Witness ==
    /\ last.op = "apply_default"
    /\ last.err = "none"
    /\ last.execd = <<AutoCommand(scr)>>
    /\ scr.set.position = Pos(2, "HDMI1")
    /\ scr.set.rotation = PyInt(90)
    /\ ~ AnyDirty(scr)

(* -------------------------------- C12 --------------------------------- *)

\* C12: every command build_cmd returns that holds --rotate, and every
\* command without --off, is built in a state whose staged is_enabled is
\* True.
C12_RotateOnlyWhenEnabled ==
    LET b == build_cmd(scr)
    IN (b.kind = "cmd" /\ ("--rotate" \in Tokens(b.cmd)
                              \/ "--off" \notin Tokens(b.cmd))) =>
          scr.set.is_enabled

(* -------------------------------- C13 --------------------------------- *)

\* C13: the position setter raises for an empty relative_to and leaves the
\* staged position and all dirty flags as they were, so that no command
\* ends with a relation token followed by an empty name.
C13_EmptyRelativeRaises ==
    /\ \A args \in PositionArgs :
          args.to = "" =>
             /\ position_setter(scr, args).err # "none"
             /\ position_setter(scr, args).scr = scr
    /\ LET b == build_cmd(scr)
       IN b.kind = "cmd" => b.cmd[Len(b.cmd)] # ""

(* -------------------------------- C14 --------------------------------- *)

\* C14: on a Screen with an empty name, build_cmd raises whenever a field
\* is dirty, and apply_settings then makes no exec_cmd call, lets the
\* exception through and leaves the dirty flags set.
C14_EmptyNameRaises ==
    (scr.name = "" /\ AnyDirty(scr)) =>
        /\ build_cmd(scr) = Built("raise", <<>>, "ValueError")
        /\ \A ok \in BOOLEAN :
              apply_settings(scr, FALSE, ok) = Applied(scr, "ValueError", <<>>)

\* apply_settings has raised on an unnamed Screen with dirty fields without
\* calling exec_cmd
C14_Witness ==
    /\ last.op = "apply_settings"
    /\ last.err = "ValueError"
    /\ last.execd = <<>>
    /\ scr.name = ""
    /\ scr.set.change_table["is_enabled"]
    /\ scr.set.change_table["position"]

(* -------------------------------- C15 --------------------------------- *)

\* the rotation is dirty and by_direction has no name for its value
BadRotation(s) ==
    s.set.change_table["rotation"] /\ ~ HasDirection(s.set.rotation)

ConstructedResolution(s) ==
    IF s.curr_mode # <<>> THEN resolution(s.curr_mode[1]) ELSE <<0, 0>>

\* C16: (no call passes custom=True) the staged resolution is the one the
\* Screen was constructed with or that of a supported mode; whenever the
\* resolution flag is set it is that of a supported mode, and so is every
\* --mode argument build_cmd emits.
C16_StagedResolutionSupported ==
    /\ scr.set.resolution
          \in {ConstructedResolution(scr)} \cup available_resolutions(scr)
    /\ scr.set.change_table["resolution"] =>
          scr.set.resolution \in available_resolutions(scr)
    /\ LET b == build_cmd(scr)
       IN (b.kind = "cmd" /\ "--mode" \in Tokens(b.cmd)) =>
             \E r \in available_resolutions(scr) :
                HasPair(b.cmd, "--mode", format(r))

\* build_cmd has returned a command with --mode for a supported mode on a
\* Screen that was constructed without a current mode
C16_Witness ==
    /\ last.op = "build_cmd"
    /\ last.ret.kind = "cmd"
    /\ HasPair(last.ret.cmd, "--mode", format(scr.set.resolution))
    /\ ConstructedResolution(scr) = <<0, 0>>
    /\ scr.set.resolution \in available_resolutions(scr)

(* -------------------------------- C17 --------------------------------- *)

\* C17 as stated: the resolution, rotation and position setters change no
\* staged value and no dirty flag while the staged is_enabled is False.
C17_NoStagingWhileDisabled ==
    ~ scr.set.is_enabled =>
        /\ \A r \in Resolutions : resolution_setter(scr, r, FALSE).scr = scr
        /\ \A d \in RotationArgs : rotation_setter(scr, d).scr = scr
        /\ \A a \in PositionArgs : position_setter(scr, a).scr = scr

\* C17 amended: a call of the resolution setter that changes a staged value
\* or a dirty flag starts in a state where the staged is_enabled is True or
\* the is_enabled flag is dirty; the rotation and position setters are not
\* restricted by is_enabled.
C17_ResolutionStagedOnlyWhenOnOrDirty ==
    [][(last'.op = "resolution" /\ scr' # scr) =>
          (scr.set.is_enabled \/ scr.set.change_table["is_enabled"])]_vars

\* the resolution setter has raised on a Screen that is off with a clean
\* is_enabled flag, on which rotation and position were staged
C17_Witness ==
    /\ last.op = "resolution"
    /\ last.err = "ValueError"
    /\ ~ scr.set.is_enabled
    /\ ~ base.is_enabled
    /\ ~ scr.set.change_table["is_enabled"]
    /\ scr.set.change_table["rotation"]
    /\ scr.set.change_table["position"]
    /\ ~ scr.set.change_table["resolution"]

(* -------------------------------- C18 --------------------------------- *)

\* the indices of the header lines
HeaderIdx(lines) == {j \in 1..Len(lines) : lines[j].conn}

\* the index of the k-th header line
NthHeader(lines, k) ==
    CHOOSE j \in HeaderIdx(lines) :
        Cardinality({h \in HeaderIdx(lines) : h <= j}) = k

\* the mode lines after the header at h and before the next header
ModesAfter(lines, h) ==
    LET later == {j \in HeaderIdx(lines) : j > h}
        nxt == IF later = {} THEN Len(lines) + 1
               ELSE CHOOSE j \in later : \A j2 \in later : j <= j2
        sel == SelectSeq(SubSeq(lines, h + 1, nxt - 1), LAMBDA l : l.rx)
    IN [j \in 1..Len(sel) |->
           Mode(sel[j].width, sel[j].height, sel[j].freq, sel[j].current,
                sel[j].preferred)]

\* C18: for every sequence of lines parse_xrandr returns one Screen per
\* header line, in input order, each with exactly the mode lines between
\* its header and the next one, in order; a Screen without mode lines has
\* is_connected False.
C18_OneScreenPerHeader ==
    (parse.done /\ parse.err = "none") =>
        /\ Len(parse.screens) = Cardinality(HeaderIdx(parse.lines))
        /\ \A k \in 1..Len(parse.screens) :
              LET h == NthHeader(parse.lines, k)
              IN /\ parse.screens[k].name = parse.lines[h].tokens[1]
                 /\ parse.screens[k].supported_modes
                       = ModesAfter(parse.lines, h)
                 /\ ModesAfter(parse.lines, h) = <<>> =>
                       ~ parse.screens[k].set.is_connected

(* -------------------------------- C19 --------------------------------- *)

\* every field dirty in s shows in cmd
Represented(s, cmd) ==
    /\ s.set.change_table["resolution"] => "--mode" \in Tokens(cmd)
    /\ s.set.change_table["is_primary"] =>
          Tokens(cmd) \cap {"--primary", "--noprimary"} # {}
    /\ s.set.change_table["rotation"] => "--rotate" \in Tokens(cmd)
    /\ s.set.change_table["position"] =>
          Tokens(cmd) \cap {positions[j].name : j \in 1..Len(positions)} # {}
    /\ s.set.change_table["is_enabled"] =>
          Tokens(cmd) \cap {"--off", "--auto", "--mode"} # {}

\* C19: whenever apply_settings passes a command to exec_cmd, exec_cmd
\* returns and the flags are reset, every field that was dirty shows in
\* that command.
C19_NoChangeLost ==
    LET a == apply_settings(scr, FALSE, TRUE)
    IN (a.err = "none" /\ a.execd # <<>>) => Represented(scr, a.execd[1])

(* -------------------------------- C20 --------------------------------- *)

\* t is s except for the staged field f and its dirty flag
OnlyOwnField(s, t, f) ==
    /\ t.name = s.name
    /\ t.supported_modes = s.supported_modes
    /\ t.curr_mode = s.curr_mode
    /\ t.set.is_connected = s.set.is_connected
    /\ \A g \in Fields \ {f} : Staged(t)[g] = Staged(s)[g]
    /\ \A key \in Keys \ {f} : t.set.change_table[key] = s.set.change_table[key]

\* C20: a setter call, returning or raising, changes at most its own
\* staged field and that field's flag, and calls exec_cmd never.
C20_SettersTouchOwnField ==
    /\ \A v \in BOOLEAN :
          /\ OnlyOwnField(scr, is_enabled_setter(scr, v).scr, "is_enabled")
          /\ OnlyOwnField(scr, is_primary_setter(scr, v).scr, "is_primary")
    /\ \A r \in Resolutions, custom \in BOOLEAN :
          OnlyOwnField(scr, resolution_setter(scr, r, custom).scr, "resolution")
    /\ \A d \in RotationArgs :
          OnlyOwnField(scr, rotation_setter(scr, d).scr, "rotation")
    /\ \A a \in PositionArgs :
          OnlyOwnField(scr, position_setter(scr, a).scr, "position")
    /\ last.op \in Fields => last.execd = <<>>

\* the is_enabled setter has flipped is_enabled on a Screen whose other
\* four fields are staged and dirty, and they still are
C20_Witness ==
    /\ last.op = "is_enabled"
    /\ scr.set.is_enabled # base.is_enabled
    /\ \A f \in Fields : scr.set.change_table[f]
    /\ \A f \in Fields : Staged(scr)[f] # base[f]

=============================================================================
